---- MODULE Spec2Model ----
(***************************************************************************)
(* CDP Treasury module (modules/cdp_treasury/src/lib.rs).                  *)
(*                                                                         *)
(* State: the module's storage items, the balances kept by the Currency    *)
(* collaborator and the outcome of the last call (its return value and the *)
(* auctions it requested).  One action per entry point of the module.  The *)
(* totals the AuctionManager collaborator reports and the outcome of an    *)
(* exchange on the DEX are inputs of the calls that read them.             *)
(***************************************************************************)
EXTENDS Integers, Sequences, FiniteSets, TLC

\* ------------------------------------------------------------------------
\* Bounds of the model
\* ------------------------------------------------------------------------

\* Largest value of the Balance type in the model (u128::MAX in the code).
MaxBalance == 1023

\* Amounts handed to the ledger operations are 0 or one Unit; two Units fit
\* in a Balance, three do not.
Unit == (2 * MaxBalance) \div 5

\* Largest MaxAuctionsCount the runtime is configured with.
MaxCap == 2

\* Lot splitter inputs: every amount, target, maximum size up to these.
MaxLotAmount == 8
MaxLotTarget == 3
MaxLotSize == 3
MaxLotCap == 4

Modulus == MaxBalance + 1
Balance == 0 .. MaxBalance

\* ------------------------------------------------------------------------
\* Accounts and currencies
\* ------------------------------------------------------------------------

TreasuryAccount == "treasury"
Accounts == {TreasuryAccount, "alice"}

GetStableCurrencyId == "AUSD"
CollateralIds == {"BTC"}
CurrencyIds == CollateralIds \cup {GetStableCurrencyId}

None == -1

VARIABLES
    SurplusAuctionFixedSize,
    SurplusBufferSize,
    InitialAmountPerDebitAuction,
    DebitAuctionFixedSize,
    CollateralAuctionMaximumSize,
    MaxAuctionsCount,
    DebitPool,
    SurplusPool,
    TotalCollaterals,
    IsShutdown,
    balances,
    last,
    total_in_auction,
    before,
    frame

params == <<SurplusAuctionFixedSize, SurplusBufferSize,
            InitialAmountPerDebitAuction, DebitAuctionFixedSize>>
config == <<params, CollateralAuctionMaximumSize, MaxAuctionsCount>>
pools == <<DebitPool, SurplusPool>>
ledger == <<DebitPool, SurplusPool, TotalCollaterals>>
\* What the AuctionManager holds in open auctions, the previous call as the
\* caller remembers it, and the local variables of a call that is under way.
aux == <<total_in_auction, before, frame>>
vars == <<config, ledger, IsShutdown, balances, last, aux>>

\* ------------------------------------------------------------------------
\* Balance arithmetic
\* ------------------------------------------------------------------------

Min(a, b) == IF a <= b THEN a ELSE b

checked_add(a, b) == IF a + b > MaxBalance THEN None ELSE a + b

checked_sub(a, b) == IF a < b THEN None ELSE a - b

saturating_add(a, b) == IF a + b > MaxBalance THEN MaxBalance ELSE a + b

saturating_sub(a, b) == IF a < b THEN 0 ELSE a - b

\* ------------------------------------------------------------------------
\* Currency collaborator (MultiCurrency): balances per account and currency
\* ------------------------------------------------------------------------

RECURSIVE SumOver(_, _, _)
SumOver(bal, c, accts) ==
    IF accts = {} THEN 0
    ELSE LET a == CHOOSE x \in accts : TRUE
         IN bal[a][c] + SumOver(bal, c, accts \ {a})

total_issuance(bal, c) == SumOver(bal, c, Accounts)

CurrencyDeposit(bal, c, who, amount) ==
    IF total_issuance(bal, c) + amount > MaxBalance
    THEN [ok |-> FALSE, err |-> "TotalIssuanceOverflow", bal |-> bal]
    ELSE [ok |-> TRUE, err |-> "Ok",
          bal |-> [bal EXCEPT ![who][c] = @ + amount]]

CurrencyEnsureCanWithdraw(bal, c, who, amount) ==
    IF bal[who][c] < amount
    THEN [ok |-> FALSE, err |-> "BalanceTooLow"]
    ELSE [ok |-> TRUE, err |-> "Ok"]

CurrencyWithdraw(bal, c, who, amount) ==
    IF bal[who][c] < amount
    THEN [ok |-> FALSE, err |-> "BalanceTooLow", bal |-> bal]
    ELSE [ok |-> TRUE, err |-> "Ok",
          bal |-> [bal EXCEPT ![who][c] = @ - amount]]

CurrencyTransfer(bal, c, from, to, amount) ==
    IF bal[from][c] < amount
    THEN [ok |-> FALSE, err |-> "BalanceTooLow", bal |-> bal]
    ELSE IF from = to
    THEN [ok |-> TRUE, err |-> "Ok", bal |-> bal]
    ELSE [ok |-> TRUE, err |-> "Ok",
          bal |-> [bal EXCEPT ![from][c] = @ - amount, ![to][c] = @ + amount]]

\* ------------------------------------------------------------------------
\* Outcome of a call
\* ------------------------------------------------------------------------

NoAuctions == << >>

\* The arguments of a call, as far as it has them.
Args(currency_id, amount, target, in_auction) ==
    [currency |-> currency_id, amount |-> amount, target |-> target,
     in_auction |-> in_auction]

NoArgs == Args("", 0, 0, 0)

Outcome(op, result, args) ==
    [op |-> op, result |-> result, burn |-> "none", auctions |-> NoAuctions,
     args |-> args]

\* No auction is open.
NoTotals ==
    [surplus |-> 0, debit |-> 0, target |-> 0,
     collateral |-> [c \in CollateralIds |-> 0]]

\* No call is remembered.
NoCall ==
    [who |-> "", currency |-> "", amount |-> 0,
     total |-> [c \in CollateralIds |-> 0],
     bal |-> [a \in Accounts |-> [c \in CurrencyIds |-> 0]]]

\* No call is under way.
Idle == [pc |-> "idle"]

AuxIdle ==
    /\ total_in_auction = NoTotals
    /\ before = NoCall
    /\ frame = Idle

\* ------------------------------------------------------------------------
\* AuctionManager collaborator: the auctions it is asked to create
\* ------------------------------------------------------------------------

RECURSIVE SumAmounts(_, _)
SumAmounts(auctions, kind) ==
    IF auctions = << >> THEN 0
    ELSE (IF Head(auctions).kind = kind THEN Head(auctions).amount ELSE 0)
         + SumAmounts(Tail(auctions), kind)

RECURSIVE SumTargets(_, _)
SumTargets(auctions, kind) ==
    IF auctions = << >> THEN 0
    ELSE (IF Head(auctions).kind = kind THEN Head(auctions).target ELSE 0)
         + SumTargets(Tail(auctions), kind)

CountKind(auctions, kind) ==
    Cardinality({i \in 1 .. Len(auctions) : auctions[i].kind = kind})

SurplusAuction(amount) ==
    [kind |-> "surplus", currency |-> GetStableCurrencyId,
     amount |-> amount, target |-> 0]

DebitAuction(initial_amount, fix_debit) ==
    [kind |-> "debit", currency |-> GetStableCurrencyId,
     amount |-> initial_amount, target |-> fix_debit]

CollateralAuction(currency_id, amount, target) ==
    [kind |-> "collateral", currency |-> currency_id,
     amount |-> amount, target |-> target]

Replicate(n, x) == [i \in 1 .. n |-> x]

\* ------------------------------------------------------------------------
\* on_finalize: offset, then the surplus and the debit auctions
\* ------------------------------------------------------------------------

\* offset_surplus_and_debit that offsets the pools whether or not the burn
\* succeeded.
offset_ignoring_burn_result(debit, surplus, bal) ==
    LET offset_amount == Min(debit, surplus)
        burnt == CurrencyWithdraw(bal, GetStableCurrencyId, TreasuryAccount,
                                  offset_amount)
    IN  IF offset_amount # 0
        THEN [debit |-> checked_sub(debit, offset_amount),
              surplus |-> checked_sub(surplus, offset_amount),
              bal |-> burnt.bal, burn |-> IF burnt.ok THEN "ok" ELSE "failed"]
        ELSE [debit |-> debit, surplus |-> surplus, bal |-> bal, burn |-> "none"]

offset_surplus_and_debit(debit, surplus, bal) ==
    LET offset_amount == Min(debit, surplus)
        burnt == CurrencyWithdraw(bal, GetStableCurrencyId, TreasuryAccount,
                                  offset_amount)
    IN  IF offset_amount # 0 /\ burnt.ok
        THEN [debit |-> checked_sub(debit, offset_amount),
              surplus |-> checked_sub(surplus, offset_amount),
              bal |-> burnt.bal, burn |-> "ok"]
        ELSE [debit |-> debit, surplus |-> surplus, bal |-> bal,
              burn |-> IF offset_amount = 0 THEN "none" ELSE "failed"]

\* a + b + c on Balance: with overflow checks the addition aborts, without
\* them it wraps.
threshold(a, b, c, overflow_checks) ==
    IF a + b + c <= MaxBalance THEN [panic |-> FALSE, value |-> a + b + c]
    ELSE IF overflow_checks THEN [panic |-> TRUE, value |-> 0]
    ELSE [panic |-> FALSE, value |-> (a + b + c) % Modulus]

RECURSIVE surplus_loop(_, _, _, _, _)
surplus_loop(remain_surplus_pool, required, surplus_auction_fixed_size, max_auctions_count, created_lots) ==
    IF remain_surplus_pool >= required
    THEN IF max_auctions_count # 0 /\ created_lots >= max_auctions_count
         THEN [created_lots |-> created_lots, panic |-> FALSE]
         ELSE IF checked_sub(remain_surplus_pool, surplus_auction_fixed_size) = None
         THEN [created_lots |-> created_lots + 1, panic |-> TRUE]
         ELSE surplus_loop(remain_surplus_pool - surplus_auction_fixed_size,
                           required, surplus_auction_fixed_size,
                           max_auctions_count, created_lots + 1)
    ELSE [created_lots |-> created_lots, panic |-> FALSE]

\* debit_loop that does not look at the number of auctions created so far.
RECURSIVE debit_loop_uncapped(_, _, _, _, _)
debit_loop_uncapped(remain_debit_pool, required, debit_auction_fixed_size, max_auctions_count, created_lots) ==
    IF remain_debit_pool >= required
    THEN IF checked_sub(remain_debit_pool, debit_auction_fixed_size) = None
         THEN [created_lots |-> created_lots + 1, panic |-> TRUE]
         ELSE debit_loop_uncapped(remain_debit_pool - debit_auction_fixed_size,
                                  required, debit_auction_fixed_size,
                                  max_auctions_count, created_lots + 1)
    ELSE [created_lots |-> created_lots, panic |-> FALSE]

RECURSIVE debit_loop(_, _, _, _, _)
debit_loop(remain_debit_pool, required, debit_auction_fixed_size, max_auctions_count, created_lots) ==
    IF remain_debit_pool >= required
    THEN IF max_auctions_count # 0 /\ created_lots >= max_auctions_count
         THEN [created_lots |-> created_lots, panic |-> FALSE]
         ELSE IF checked_sub(remain_debit_pool, debit_auction_fixed_size) = None
         THEN [created_lots |-> created_lots + 1, panic |-> TRUE]
         ELSE debit_loop(remain_debit_pool - debit_auction_fixed_size,
                         required, debit_auction_fixed_size,
                         max_auctions_count, created_lots + 1)
    ELSE [created_lots |-> created_lots, panic |-> FALSE]

\* The surplus phase: the number of auctions requested so far and whether
\* the phase aborted.
surplus_phase(surplus_pool, created_lots, in_auction, overflow_checks) ==
    IF SurplusAuctionFixedSize # 0
    THEN LET required == threshold(in_auction.surplus, SurplusBufferSize,
                                   SurplusAuctionFixedSize, overflow_checks)
         IN  IF required.panic
             THEN [created_lots |-> created_lots, panic |-> TRUE]
             ELSE surplus_loop(surplus_pool, required.value,
                               SurplusAuctionFixedSize, MaxAuctionsCount,
                               created_lots)
    ELSE [created_lots |-> created_lots, panic |-> FALSE]

debit_phase(debit_pool, created_lots, in_auction, overflow_checks) ==
    IF DebitAuctionFixedSize # 0 /\ InitialAmountPerDebitAuction # 0
    THEN LET required == threshold(in_auction.debit, in_auction.target,
                                   DebitAuctionFixedSize, overflow_checks)
         IN  IF required.panic
             THEN [created_lots |-> created_lots, panic |-> TRUE]
             ELSE debit_loop(debit_pool, required.value, DebitAuctionFixedSize,
                             MaxAuctionsCount, created_lots)
    ELSE [created_lots |-> created_lots, panic |-> FALSE]

\* The surplus phase, then the debit phase: the auctions requested, in order.
phases(debit_pool, surplus_pool, in_auction, overflow_checks) ==
    LET s == surplus_phase(surplus_pool, 0, in_auction, overflow_checks)
        d == IF s.panic THEN s
             ELSE debit_phase(debit_pool, s.created_lots, in_auction,
                              overflow_checks)
    IN  [auctions |->
             Replicate(s.created_lots, SurplusAuction(SurplusAuctionFixedSize))
             \o Replicate(d.created_lots - s.created_lots,
                          DebitAuction(InitialAmountPerDebitAuction,
                                       DebitAuctionFixedSize)),
         panic |-> d.panic]

\* schedule that does not look at the shutdown flag.
schedule_ignoring_shutdown(is_shutdown, debit_pool, surplus_pool, in_auction, overflow_checks) ==
    phases(debit_pool, surplus_pool, in_auction, overflow_checks)

\* The auctions requested after the offset left (debit_pool, surplus_pool).
schedule(is_shutdown, debit_pool, surplus_pool, in_auction, overflow_checks) ==
    IF ~is_shutdown
    THEN phases(debit_pool, surplus_pool, in_auction, overflow_checks)
    ELSE [auctions |-> NoAuctions, panic |-> FALSE]

\* A call that aborts is discarded with everything it wrote; `last` keeps
\* what it had requested up to there.
on_finalize(in_auction, overflow_checks) ==
    LET off == offset_surplus_and_debit(DebitPool, SurplusPool, balances)
        sch == schedule(IsShutdown, off.debit, off.surplus, in_auction,
                        overflow_checks)
    IN  /\ last' = [op |-> "on_finalize",
                    result |-> IF sch.panic THEN "panic" ELSE "Ok",
                    burn |-> off.burn, auctions |-> sch.auctions,
                    args |-> NoArgs]
        /\ IF sch.panic
           THEN UNCHANGED <<ledger, balances>>
           ELSE /\ DebitPool' = off.debit
                /\ SurplusPool' = off.surplus
                /\ balances' = off.bal
                /\ UNCHANGED TotalCollaterals
        /\ UNCHANGED <<config, IsShutdown>>

\* on_emergency_shutdown that flips the flag.
on_emergency_shutdown_toggle ==
    /\ IsShutdown' = ~IsShutdown
    /\ last' = Outcome("on_emergency_shutdown", "Ok", NoArgs)
    /\ UNCHANGED <<config, ledger, balances>>

on_emergency_shutdown ==
    /\ IsShutdown' = TRUE
    /\ last' = Outcome("on_emergency_shutdown", "Ok", NoArgs)
    /\ UNCHANGED <<config, ledger, balances>>

\* ------------------------------------------------------------------------
\* impl CDPTreasury: the ledger operations
\* ------------------------------------------------------------------------

\* on_system_debit with a wrapping addition.
on_system_debit_wrapping(amount) ==
    /\ DebitPool' = (DebitPool + amount) % Modulus
    /\ last' = Outcome("on_system_debit", "Ok", NoArgs)
    /\ UNCHANGED <<config, SurplusPool, TotalCollaterals, IsShutdown, balances>>

on_system_debit(amount) ==
    LET new_debit_pool == checked_add(DebitPool, amount)
    IN  IF new_debit_pool = None
        THEN /\ last' = Outcome("on_system_debit", "DebitPoolOverflow", NoArgs)
             /\ UNCHANGED <<config, ledger, IsShutdown, balances>>
        ELSE /\ DebitPool' = new_debit_pool
             /\ last' = Outcome("on_system_debit", "Ok", NoArgs)
             /\ UNCHANGED <<config, SurplusPool, TotalCollaterals, IsShutdown,
                            balances>>

\* on_system_surplus that books the surplus without depositing it.
on_system_surplus_without_deposit(amount) ==
    LET new_surplus_pool == checked_add(SurplusPool, amount)
    IN  IF new_surplus_pool = None
        THEN /\ last' = Outcome("on_system_surplus", "SurplusPoolOverflow", NoArgs)
             /\ UNCHANGED <<config, ledger, IsShutdown, balances>>
        ELSE /\ SurplusPool' = new_surplus_pool
             /\ last' = Outcome("on_system_surplus", "Ok", NoArgs)
             /\ UNCHANGED <<config, DebitPool, TotalCollaterals, IsShutdown,
                            balances>>

on_system_surplus(amount) ==
    LET new_surplus_pool == checked_add(SurplusPool, amount)
        dep == CurrencyDeposit(balances, GetStableCurrencyId, TreasuryAccount, amount)
    IN  IF new_surplus_pool = None
        THEN /\ last' = Outcome("on_system_surplus", "SurplusPoolOverflow", NoArgs)
             /\ UNCHANGED <<config, ledger, IsShutdown, balances>>
        ELSE IF ~dep.ok
        THEN /\ last' = Outcome("on_system_surplus", dep.err, NoArgs)
             /\ UNCHANGED <<config, ledger, IsShutdown, balances>>
        ELSE /\ balances' = dep.bal
             /\ SurplusPool' = new_surplus_pool
             /\ last' = Outcome("on_system_surplus", "Ok", NoArgs)
             /\ UNCHANGED <<config, DebitPool, TotalCollaterals, IsShutdown>>

issue_debit(who, debit, backed) ==
    LET new_debit_pool == checked_add(DebitPool, debit)
        dep == CurrencyDeposit(balances, GetStableCurrencyId, who, debit)
    IN  IF ~backed
        THEN IF new_debit_pool = None
             THEN /\ last' = Outcome("issue_debit", "DebitPoolOverflow", NoArgs)
                  /\ UNCHANGED <<config, ledger, IsShutdown, balances>>
             ELSE IF ~dep.ok
             THEN /\ last' = Outcome("issue_debit", dep.err, NoArgs)
                  /\ UNCHANGED <<config, ledger, IsShutdown, balances>>
             ELSE /\ balances' = dep.bal
                  /\ DebitPool' = new_debit_pool
                  /\ last' = Outcome("issue_debit", "Ok", NoArgs)
                  /\ UNCHANGED <<config, SurplusPool, TotalCollaterals, IsShutdown>>
        ELSE IF ~dep.ok
             THEN /\ last' = Outcome("issue_debit", dep.err, NoArgs)
                  /\ UNCHANGED <<config, ledger, IsShutdown, balances>>
             ELSE /\ balances' = dep.bal
                  /\ last' = Outcome("issue_debit", "Ok", NoArgs)
                  /\ UNCHANGED <<config, ledger, IsShutdown>>

burn_debit(who, debit) ==
    LET wd == CurrencyWithdraw(balances, GetStableCurrencyId, who, debit)
    IN  /\ balances' = wd.bal
        /\ last' = Outcome("burn_debit", wd.err, NoArgs)
        /\ UNCHANGED <<config, ledger, IsShutdown>>

deposit_surplus(from, surplus) ==
    LET new_surplus_pool == checked_add(SurplusPool, surplus)
        tr == CurrencyTransfer(balances, GetStableCurrencyId, from,
                               TreasuryAccount, surplus)
    IN  IF new_surplus_pool = None
        THEN /\ last' = Outcome("deposit_surplus", "SurplusPoolOverflow", NoArgs)
             /\ UNCHANGED <<config, ledger, IsShutdown, balances>>
        ELSE IF ~tr.ok
        THEN /\ last' = Outcome("deposit_surplus", tr.err, NoArgs)
             /\ UNCHANGED <<config, ledger, IsShutdown, balances>>
        ELSE /\ balances' = tr.bal
             /\ SurplusPool' = new_surplus_pool
             /\ last' = Outcome("deposit_surplus", "Ok", NoArgs)
             /\ UNCHANGED <<config, DebitPool, TotalCollaterals, IsShutdown>>

deposit_collateral(from, currency_id, amount) ==
    LET new_total_collateral == checked_add(TotalCollaterals[currency_id], amount)
        tr == CurrencyTransfer(balances, currency_id, from, TreasuryAccount, amount)
    IN  IF new_total_collateral = None
        THEN /\ last' = Outcome("deposit_collateral", "CollateralOverflow", NoArgs)
             /\ UNCHANGED <<config, ledger, IsShutdown, balances>>
        ELSE IF ~tr.ok
        THEN /\ last' = Outcome("deposit_collateral", tr.err, NoArgs)
             /\ UNCHANGED <<config, ledger, IsShutdown, balances>>
        ELSE /\ balances' = tr.bal
             /\ TotalCollaterals' =
                    [TotalCollaterals EXCEPT ![currency_id] = new_total_collateral]
             /\ last' = Outcome("deposit_collateral", "Ok", NoArgs)
             /\ UNCHANGED <<config, pools, IsShutdown>>

\* withdraw_collateral that transfers the amount and leaves the total.
withdraw_collateral_keeping_total(to, currency_id, amount) ==
    LET new_total_collateral == checked_sub(TotalCollaterals[currency_id], amount)
        tr == CurrencyTransfer(balances, currency_id, TreasuryAccount, to, amount)
    IN  IF new_total_collateral = None
        THEN /\ last' = Outcome("withdraw_collateral", "CollateralNotEnough", NoArgs)
             /\ UNCHANGED <<config, ledger, IsShutdown, balances>>
        ELSE IF ~tr.ok
        THEN /\ last' = Outcome("withdraw_collateral", tr.err, NoArgs)
             /\ UNCHANGED <<config, ledger, IsShutdown, balances>>
        ELSE /\ balances' = tr.bal
             /\ last' = Outcome("withdraw_collateral", "Ok", NoArgs)
             /\ UNCHANGED <<config, ledger, IsShutdown>>

withdraw_collateral(to, currency_id, amount) ==
    LET new_total_collateral == checked_sub(TotalCollaterals[currency_id], amount)
        tr == CurrencyTransfer(balances, currency_id, TreasuryAccount, to, amount)
    IN  IF new_total_collateral = None
        THEN /\ last' = Outcome("withdraw_collateral", "CollateralNotEnough", NoArgs)
             /\ UNCHANGED <<config, ledger, IsShutdown, balances>>
        ELSE IF ~tr.ok
        THEN /\ last' = Outcome("withdraw_collateral", tr.err, NoArgs)
             /\ UNCHANGED <<config, ledger, IsShutdown, balances>>
        ELSE /\ balances' = tr.bal
             /\ TotalCollaterals' =
                    [TotalCollaterals EXCEPT ![currency_id] = new_total_collateral]
             /\ last' = Outcome("withdraw_collateral", "Ok", NoArgs)
             /\ UNCHANGED <<config, pools, IsShutdown>>

\* ------------------------------------------------------------------------
\* impl CDPTreasuryExtended
\* ------------------------------------------------------------------------

\* DEX collaborator: the exchange either fails and changes nothing, or takes
\* supply_amount of the supplied currency from the account and credits it
\* `received` (at least target_amount) of the target currency.
DEXOutcomes(bal, who, supply_currency_id, supply_amount, target_currency_id, target_amount, offers) ==
    {[ok |-> FALSE, err |-> "ExchangeFailed", amount |-> 0, bal |-> bal]}
    \cup
    {[ok |-> TRUE, err |-> "Ok", amount |-> received,
      bal |-> [bal EXCEPT ![who][supply_currency_id] = @ - supply_amount,
                          ![who][target_currency_id] = @ + received]] :
        received \in {r \in offers :
            /\ supply_amount > 0
            /\ r > 0
            /\ r >= target_amount
            /\ bal[who][supply_currency_id] >= supply_amount
            /\ total_issuance(bal, target_currency_id) + r <= MaxBalance}}

swap_collateral_to_stable(currency_id, supply_amount, target_amount, dex) ==
    LET can == CurrencyEnsureCanWithdraw(balances, currency_id, TreasuryAccount,
                                         supply_amount)
        new_surplus_pool == checked_add(SurplusPool, dex.amount)
    IN  IF ~(TotalCollaterals[currency_id] >= supply_amount)
        THEN /\ last' = Outcome("swap_collateral_to_stable", "CollateralNotEnough", NoArgs)
             /\ UNCHANGED <<config, ledger, IsShutdown, balances>>
        ELSE IF ~can.ok
        THEN /\ last' = Outcome("swap_collateral_to_stable", can.err, NoArgs)
             /\ UNCHANGED <<config, ledger, IsShutdown, balances>>
        ELSE IF ~dex.ok
        THEN /\ last' = Outcome("swap_collateral_to_stable", dex.err, NoArgs)
             /\ UNCHANGED <<config, ledger, IsShutdown, balances>>
        ELSE IF new_surplus_pool = None
        THEN /\ balances' = dex.bal
             /\ last' = Outcome("swap_collateral_to_stable", "SurplusPoolOverflow", NoArgs)
             /\ UNCHANGED <<config, ledger, IsShutdown>>
        ELSE /\ balances' = dex.bal
             /\ SurplusPool' = new_surplus_pool
             /\ TotalCollaterals' =
                    [TotalCollaterals EXCEPT
                        ![currency_id] = checked_sub(@, supply_amount)]
             /\ last' = Outcome("swap_collateral_to_stable", "Ok", NoArgs)
             /\ UNCHANGED <<config, DebitPool, IsShutdown>>

\* lots_count without the extra lot for the remainder of the division.
lots_count_no_round_up(amount, collateral_auction_maximum_size, max_auctions_count) ==
    IF \/ max_auctions_count = 0
       \/ collateral_auction_maximum_size = 0
       \/ amount <= collateral_auction_maximum_size
    THEN 1
    ELSE Min(amount \div collateral_auction_maximum_size, max_auctions_count)

lots_count(amount, collateral_auction_maximum_size, max_auctions_count) ==
    IF \/ max_auctions_count = 0
       \/ collateral_auction_maximum_size = 0
       \/ amount <= collateral_auction_maximum_size
    THEN 1
    ELSE LET count == amount \div collateral_auction_maximum_size
             remainder == amount % collateral_auction_maximum_size
         IN  Min(IF remainder # 0 THEN saturating_add(count, 1) ELSE count,
                 max_auctions_count)

\* lots_loop with a last lot of the average size, like the others.
RECURSIVE lots_loop_average_only(_, _, _, _, _, _, _)
lots_loop_average_only(currency_id, unhandled_collateral_amount, unhandled_target, count, average_amount_per_lot, average_target_per_lot, created_lots) ==
    IF unhandled_collateral_amount # 0
    THEN <<CollateralAuction(currency_id, average_amount_per_lot,
                             average_target_per_lot)>>
         \o lots_loop_average_only(currency_id,
                saturating_sub(unhandled_collateral_amount, average_amount_per_lot),
                saturating_sub(unhandled_target, average_target_per_lot),
                count, average_amount_per_lot, average_target_per_lot,
                saturating_add(created_lots, 1))
    ELSE << >>

\* The lots of the creation loop, from the state of its local variables.
RECURSIVE lots_loop(_, _, _, _, _, _, _)
lots_loop(currency_id, unhandled_collateral_amount, unhandled_target, count, average_amount_per_lot, average_target_per_lot, created_lots) ==
    IF unhandled_collateral_amount # 0
    THEN LET created == saturating_add(created_lots, 1)
             lot_collateral_amount ==
                 IF created = count THEN unhandled_collateral_amount
                 ELSE average_amount_per_lot
             lot_target ==
                 IF created = count THEN unhandled_target
                 ELSE average_target_per_lot
         IN  <<CollateralAuction(currency_id, lot_collateral_amount, lot_target)>>
             \o lots_loop(currency_id,
                    saturating_sub(unhandled_collateral_amount, lot_collateral_amount),
                    saturating_sub(unhandled_target, lot_target),
                    count, average_amount_per_lot, average_target_per_lot, created)
    ELSE << >>

collateral_lots(currency_id, amount, target, collateral_auction_maximum_size, max_auctions_count) ==
    LET count == lots_count(amount, collateral_auction_maximum_size,
                            max_auctions_count)
    IN  lots_loop(currency_id, amount, target, count,
                  amount \div count, target \div count, 0)

create_collateral_auctions(currency_id, amount, target, collateral_in_auction) ==
    LET lots == IF /\ amount # 0
                   /\ TotalCollaterals[currency_id] >=
                          saturating_add(amount, collateral_in_auction)
                THEN collateral_lots(currency_id, amount, target,
                                     CollateralAuctionMaximumSize[currency_id],
                                     MaxAuctionsCount)
                ELSE NoAuctions
    IN  /\ last' = [op |-> "create_collateral_auctions", result |-> "Ok",
                    burn |-> "none", auctions |-> lots,
                    args |-> Args(currency_id, amount, target,
                                 collateral_in_auction)]
        /\ UNCHANGED <<config, ledger, IsShutdown, balances>>

\* ------------------------------------------------------------------------
\* Dispatchable calls: the parameter setters
\* ------------------------------------------------------------------------

set_debit_and_surplus_handle_params(origin_ok, surplus_auction_fixed_size, surplus_buffer_size, initial_amount_per_debit_auction, debit_auction_fixed_size) ==
    IF ~origin_ok
    THEN /\ last' = Outcome("set_debit_and_surplus_handle_params", "BadOrigin",
                            NoArgs)
         /\ UNCHANGED <<config, ledger, IsShutdown, balances>>
    ELSE /\ SurplusAuctionFixedSize' =
                IF surplus_auction_fixed_size # None
                THEN surplus_auction_fixed_size ELSE SurplusAuctionFixedSize
         /\ SurplusBufferSize' =
                IF surplus_buffer_size # None
                THEN surplus_buffer_size ELSE SurplusBufferSize
         /\ InitialAmountPerDebitAuction' =
                IF initial_amount_per_debit_auction # None
                THEN initial_amount_per_debit_auction
                ELSE InitialAmountPerDebitAuction
         /\ DebitAuctionFixedSize' =
                IF debit_auction_fixed_size # None
                THEN debit_auction_fixed_size ELSE DebitAuctionFixedSize
         /\ last' = Outcome("set_debit_and_surplus_handle_params", "Ok", NoArgs)
         /\ UNCHANGED <<CollateralAuctionMaximumSize, MaxAuctionsCount, ledger,
                        IsShutdown, balances>>

set_collateral_auction_maximum_size(origin_ok, currency_id, size) ==
    IF ~origin_ok
    THEN /\ last' = Outcome("set_collateral_auction_maximum_size", "BadOrigin",
                            NoArgs)
         /\ UNCHANGED <<config, ledger, IsShutdown, balances>>
    ELSE /\ CollateralAuctionMaximumSize' =
                [CollateralAuctionMaximumSize EXCEPT ![currency_id] = size]
         /\ last' = Outcome("set_collateral_auction_maximum_size", "Ok", NoArgs)
         /\ UNCHANGED <<params, MaxAuctionsCount, ledger, IsShutdown, balances>>

\* ------------------------------------------------------------------------
\* Spec: the treasury over its life, from genesis, under any sequence of
\* calls.  Amounts are 0 or one Unit.
\* ------------------------------------------------------------------------

Amounts == {0, Unit}
Sizes == {0, Unit}
Pools == {0, Unit, 2 * Unit}

InAuction(surplus, debit, target) ==
    [surplus |-> surplus, debit |-> debit, target |-> target]

Genesis ==
    /\ DebitPool = 0
    /\ SurplusPool = 0
    /\ TotalCollaterals = [c \in CollateralIds |-> 0]
    /\ IsShutdown = FALSE
    /\ balances = [a \in Accounts |-> [c \in CurrencyIds |->
                      IF a # TreasuryAccount /\ c \in CollateralIds
                      THEN 2 * Unit ELSE 0]]
    /\ last = Outcome("genesis", "Ok", NoArgs)

Init ==
    /\ SurplusAuctionFixedSize = Unit
    /\ SurplusBufferSize = 0
    /\ InitialAmountPerDebitAuction = Unit
    /\ DebitAuctionFixedSize = Unit
    /\ CollateralAuctionMaximumSize = [c \in CollateralIds |-> Unit]
    /\ MaxAuctionsCount = 1
    /\ Genesis
    /\ AuxIdle

OnFinalize ==
    /\ \E surplus \in Amounts, debit \in Amounts :
           on_finalize(InAuction(surplus, debit, 0), TRUE)
    /\ UNCHANGED aux

OnEmergencyShutdown == on_emergency_shutdown /\ UNCHANGED aux

OnSystemDebit ==
    /\ \E amount \in Amounts : on_system_debit(amount)
    /\ UNCHANGED aux

OnSystemSurplus ==
    /\ \E amount \in Amounts : on_system_surplus(amount)
    /\ UNCHANGED aux

IssueDebit ==
    /\ \E who \in Accounts, debit \in Amounts, backed \in BOOLEAN :
           issue_debit(who, debit, backed)
    /\ UNCHANGED aux

BurnDebit ==
    /\ \E who \in Accounts, debit \in Amounts : burn_debit(who, debit)
    /\ UNCHANGED aux

DepositSurplus ==
    /\ \E from \in Accounts, surplus \in Amounts :
           deposit_surplus(from, surplus)
    /\ UNCHANGED aux

DepositCollateral ==
    /\ \E from \in Accounts, currency_id \in CollateralIds, amount \in Amounts :
           deposit_collateral(from, currency_id, amount)
    /\ UNCHANGED aux

WithdrawCollateral ==
    /\ \E to \in Accounts, currency_id \in CollateralIds, amount \in Amounts :
           withdraw_collateral(to, currency_id, amount)
    /\ UNCHANGED aux

SwapCollateralToStable ==
    /\ \E currency_id \in CollateralIds, supply_amount \in Amounts,
          target_amount \in Amounts :
           \E dex \in DEXOutcomes(balances, TreasuryAccount, currency_id,
                                  supply_amount, GetStableCurrencyId,
                                  target_amount, Amounts) :
               swap_collateral_to_stable(currency_id, supply_amount,
                                         target_amount, dex)
    /\ UNCHANGED aux

CreateCollateralAuctions ==
    /\ \E currency_id \in CollateralIds, amount \in Amounts, target \in {Unit},
          collateral_in_auction \in Amounts :
           create_collateral_auctions(currency_id, amount, target,
                                      collateral_in_auction)
    /\ UNCHANGED aux

SetDebitAndSurplusHandleParams ==
    /\ \E origin_ok \in BOOLEAN, size \in Sizes \cup {None} :
           set_debit_and_surplus_handle_params(origin_ok, size, None, None, None)
    /\ UNCHANGED aux

SetCollateralAuctionMaximumSize ==
    /\ \E origin_ok \in BOOLEAN, currency_id \in CollateralIds, size \in Sizes :
           set_collateral_auction_maximum_size(origin_ok, currency_id, size)
    /\ UNCHANGED aux

Next ==
    \/ OnFinalize
    \/ OnEmergencyShutdown
    \/ OnSystemDebit
    \/ OnSystemSurplus
    \/ IssueDebit
    \/ BurnDebit
    \/ DepositSurplus
    \/ DepositCollateral
    \/ WithdrawCollateral
    \/ SwapCollateralToStable
    \/ CreateCollateralAuctions
    \/ SetDebitAndSurplusHandleParams
    \/ SetCollateralAuctionMaximumSize

Spec == Init /\ [][Next]_vars

\* ------------------------------------------------------------------------
\* SpecLedger: the calls that move the pools, the collateral totals and the
\* balances, under the genesis configuration
\* ------------------------------------------------------------------------

NextLedger ==
    \/ OnFinalize
    \/ OnSystemDebit
    \/ OnSystemSurplus
    \/ IssueDebit
    \/ BurnDebit
    \/ DepositSurplus
    \/ DepositCollateral
    \/ WithdrawCollateral
    \/ SwapCollateralToStable

SpecLedger == Init /\ [][NextLedger]_vars

\* ------------------------------------------------------------------------
\* SpecExternal: the calls that move stable currency or the pools, made by
\* callers that never name the treasury account as who or from.  The
\* treasury starts with at least SurplusPool of stable currency and with
\* collateral to swap.
\* ------------------------------------------------------------------------

Callers == Accounts \ {TreasuryAccount}

InitExternal ==
    /\ SurplusAuctionFixedSize = Unit
    /\ SurplusBufferSize = 0
    /\ InitialAmountPerDebitAuction = Unit
    /\ DebitAuctionFixedSize = Unit
    /\ CollateralAuctionMaximumSize = [c \in CollateralIds |-> Unit]
    /\ MaxAuctionsCount = 1
    /\ DebitPool \in Amounts
    /\ SurplusPool \in Amounts
    /\ TotalCollaterals = [c \in CollateralIds |-> Unit]
    /\ IsShutdown \in BOOLEAN
    /\ \E stable \in {a \in Amounts : a >= SurplusPool}, held \in Amounts :
           balances = [a \in Accounts |-> [c \in CurrencyIds |->
                          IF a = TreasuryAccount
                          THEN IF c = GetStableCurrencyId THEN stable ELSE Unit
                          ELSE IF c = GetStableCurrencyId THEN held ELSE 0]]
    /\ last = Outcome("genesis", "Ok", NoArgs)
    /\ AuxIdle

ExternalOnFinalize ==
    /\ \E surplus \in Amounts, debit \in Amounts, target \in Amounts,
          overflow_checks \in BOOLEAN :
           on_finalize(InAuction(surplus, debit, target), overflow_checks)
    /\ UNCHANGED aux

ExternalIssueDebit ==
    /\ \E who \in Callers, debit \in Amounts, backed \in BOOLEAN :
           issue_debit(who, debit, backed)
    /\ UNCHANGED aux

ExternalBurnDebit ==
    /\ \E who \in Callers, debit \in Amounts : burn_debit(who, debit)
    /\ UNCHANGED aux

ExternalDepositSurplus ==
    /\ \E from \in Callers, surplus \in Amounts :
           deposit_surplus(from, surplus)
    /\ UNCHANGED aux

NextExternal ==
    \/ ExternalOnFinalize
    \/ OnSystemDebit
    \/ OnSystemSurplus
    \/ ExternalIssueDebit
    \/ ExternalBurnDebit
    \/ ExternalDepositSurplus
    \/ SwapCollateralToStable

SpecExternal == InitExternal /\ [][NextExternal]_vars

\* ------------------------------------------------------------------------
\* SpecCycle: the end of a block under every configuration, every pair of
\* pools and every report of the AuctionManager, with and without overflow
\* checks
\* ------------------------------------------------------------------------

CyclePools == {0, Unit, 2 * Unit, MaxBalance}

InitCycle ==
    /\ SurplusAuctionFixedSize \in Sizes
    /\ SurplusBufferSize \in Sizes
    /\ InitialAmountPerDebitAuction \in Sizes
    /\ DebitAuctionFixedSize \in Sizes
    /\ CollateralAuctionMaximumSize = [c \in CollateralIds |-> Unit]
    /\ MaxAuctionsCount \in 0 .. MaxCap
    /\ DebitPool \in CyclePools
    /\ SurplusPool \in CyclePools
    /\ TotalCollaterals = [c \in CollateralIds |-> 0]
    /\ IsShutdown = FALSE
    /\ \E stable \in {0, SurplusPool} :
          balances = [a \in Accounts |-> [c \in CurrencyIds |->
                         IF a = TreasuryAccount /\ c = GetStableCurrencyId
                         THEN stable ELSE 0]]
    /\ last = Outcome("genesis", "Ok", NoArgs)
    /\ AuxIdle

CycleOnFinalize ==
    /\ \E surplus \in Pools, debit \in Pools, target \in Amounts,
          overflow_checks \in BOOLEAN :
           on_finalize(InAuction(surplus, debit, target), overflow_checks)
    /\ UNCHANGED aux

NextCycle ==
    \/ CycleOnFinalize
    \/ OnEmergencyShutdown
    \/ OnSystemDebit
    \/ OnSystemSurplus

SpecCycle == InitCycle /\ [][NextCycle]_vars

\* ------------------------------------------------------------------------
\* SpecLots: the lot splitter on every small amount, target, maximum size
\* and cap, and on the amounts of the documented scenario
\* ------------------------------------------------------------------------

\* The documented scenario: amount, maximum lot size, MaxAuctionsCount.
Scenario == [amount |-> 250, size |-> 100, cap |-> 0]

LotAmounts == 0 .. MaxLotAmount \cup {Scenario.amount}
LotTargets == 0 .. MaxLotTarget \cup {Scenario.amount}
LotSizes == 0 .. MaxLotSize \cup {Scenario.size}
LotTotals == {MaxLotAmount - 1, MaxLotAmount, Scenario.amount, MaxBalance}

InitLots ==
    /\ SurplusAuctionFixedSize = Unit
    /\ SurplusBufferSize = 0
    /\ InitialAmountPerDebitAuction = Unit
    /\ DebitAuctionFixedSize = Unit
    /\ CollateralAuctionMaximumSize \in [CollateralIds -> LotSizes]
    /\ MaxAuctionsCount \in 0 .. MaxLotCap
    /\ DebitPool = 0
    /\ SurplusPool = 0
    /\ TotalCollaterals \in [CollateralIds -> LotTotals]
    /\ IsShutdown = FALSE
    /\ balances = [a \in Accounts |-> [c \in CurrencyIds |->
                      IF a = TreasuryAccount /\ c \in CollateralIds
                      THEN TotalCollaterals[c] ELSE 0]]
    /\ last = Outcome("genesis", "Ok", NoArgs)
    /\ AuxIdle

LotsCreateCollateralAuctions ==
    /\ \E currency_id \in CollateralIds, amount \in LotAmounts,
          target \in LotTargets, collateral_in_auction \in {0, 1} :
           create_collateral_auctions(currency_id, amount, target,
                                      collateral_in_auction)
    /\ UNCHANGED aux

NextLots == LotsCreateCollateralAuctions

SpecLots == InitLots /\ [][NextLots]_vars

\* ------------------------------------------------------------------------
\* SpecCollateral: the collateral of the treasury while the AuctionManager
\* keeps every auction it is asked for open
\* ------------------------------------------------------------------------

\* AuctionManager collaborator: a new surplus auction adds its amount to the
\* total surplus in auction, a new debit auction its fixed debit to the
\* total debit in auction, a new collateral auction its amount to the total
\* collateral of its currency and its target to the total target.
RECURSIVE AuctionManagerAdd(_, _)
AuctionManagerAdd(totals, auctions) ==
    IF auctions = << >> THEN totals
    ELSE LET a == Head(auctions)
             added ==
                 IF a.kind = "surplus"
                 THEN [totals EXCEPT !.surplus = @ + a.amount]
                 ELSE IF a.kind = "debit"
                 THEN [totals EXCEPT !.debit = @ + a.target]
                 ELSE [totals EXCEPT !.collateral[a.currency] = @ + a.amount,
                                     !.target = @ + a.target]
         IN  AuctionManagerAdd(added, Tail(auctions))

\* A call that goes through: the AuctionManager has the auctions it asked for.
AuctionManagerKeeps ==
    /\ total_in_auction' = AuctionManagerAdd(total_in_auction, last'.auctions)
    /\ UNCHANGED <<before, frame>>

CollateralDeposit ==
    /\ \E from \in Accounts, currency_id \in CollateralIds, amount \in Amounts :
           deposit_collateral(from, currency_id, amount)
    /\ AuctionManagerKeeps

CollateralWithdraw ==
    /\ \E to \in Accounts, currency_id \in CollateralIds, amount \in Amounts :
           withdraw_collateral(to, currency_id, amount)
    /\ AuctionManagerKeeps

CollateralSwap ==
    /\ \E currency_id \in CollateralIds, supply_amount \in Amounts,
          target_amount \in Amounts :
           \E dex \in DEXOutcomes(balances, TreasuryAccount, currency_id,
                                  supply_amount, GetStableCurrencyId,
                                  target_amount, Amounts) :
               swap_collateral_to_stable(currency_id, supply_amount,
                                         target_amount, dex)
    /\ AuctionManagerKeeps

CollateralCreateAuctions ==
    /\ \E currency_id \in CollateralIds, amount \in Amounts,
          target \in Amounts :
           create_collateral_auctions(currency_id, amount, target,
               total_in_auction.collateral[currency_id])
    /\ AuctionManagerKeeps

NextCollateral ==
    \/ CollateralDeposit
    \/ CollateralWithdraw
    \/ CollateralSwap
    \/ CollateralCreateAuctions

SpecCollateral == Init /\ [][NextCollateral]_vars

\* ------------------------------------------------------------------------
\* SpecRoundTrip: a caller that deposits collateral and withdraws it again
\* in its next call, among other calls on the collateral
\* ------------------------------------------------------------------------

\* The caller remembers its deposit and what the ledger was before it.
RoundTripDeposit ==
    \E from \in Accounts, currency_id \in CollateralIds, amount \in Amounts :
        /\ deposit_collateral(from, currency_id, amount)
        /\ before' = [who |-> from, currency |-> currency_id,
                      amount |-> amount, total |-> TotalCollaterals,
                      bal |-> balances]
        /\ UNCHANGED <<total_in_auction, frame>>

\* The call that follows a deposit that succeeded: the same account
\* withdraws the same amount of the same currency.
RoundTripWithdraw ==
    /\ last.op = "deposit_collateral"
    /\ last.result = "Ok"
    /\ before.who # ""
    /\ withdraw_collateral(before.who, before.currency, before.amount)
    /\ UNCHANGED aux

\* Any other call forgets the deposit.
Forgets ==
    /\ before' = NoCall
    /\ UNCHANGED <<total_in_auction, frame>>

RoundTripOtherWithdraw ==
    /\ \E to \in Accounts, currency_id \in CollateralIds, amount \in Amounts :
           withdraw_collateral(to, currency_id, amount)
    /\ Forgets

RoundTripSwap ==
    /\ \E currency_id \in CollateralIds, supply_amount \in Amounts,
          target_amount \in Amounts :
           \E dex \in DEXOutcomes(balances, TreasuryAccount, currency_id,
                                  supply_amount, GetStableCurrencyId,
                                  target_amount, Amounts) :
               swap_collateral_to_stable(currency_id, supply_amount,
                                         target_amount, dex)
    /\ Forgets

NextRoundTrip ==
    \/ RoundTripDeposit
    \/ RoundTripWithdraw
    \/ RoundTripOtherWithdraw
    \/ RoundTripSwap

SpecRoundTrip == Init /\ [][NextRoundTrip]_vars

\* ------------------------------------------------------------------------
\* SpecSchedule: block after block, with the AuctionManager keeping every
\* auction open and reporting its totals to the next block; the documented
\* surplus scenario is one of the configurations
\* ------------------------------------------------------------------------

\* The documented scenario: surplus pool, buffer, fixed size, cap.
SurplusScenario == [pool |-> 1000, buffer |-> 100, size |-> 200, cap |-> 2]

ScheduleSizes == {0, SurplusScenario.size, Unit}
ScheduleBuffers == {0, SurplusScenario.buffer, Unit}
SchedulePools == {0, Unit, 2 * Unit, SurplusScenario.pool, MaxBalance}

InitSchedule ==
    /\ SurplusAuctionFixedSize \in ScheduleSizes
    /\ SurplusBufferSize \in ScheduleBuffers
    /\ InitialAmountPerDebitAuction = Unit
    /\ DebitAuctionFixedSize \in Sizes
    /\ CollateralAuctionMaximumSize = [c \in CollateralIds |-> Unit]
    /\ MaxAuctionsCount \in 0 .. MaxCap
    /\ DebitPool \in Pools
    /\ SurplusPool \in SchedulePools
    /\ TotalCollaterals = [c \in CollateralIds |-> 0]
    /\ IsShutdown = FALSE
    /\ \E stable \in {0, SurplusPool} :
          balances = [a \in Accounts |-> [c \in CurrencyIds |->
                         IF a = TreasuryAccount /\ c = GetStableCurrencyId
                         THEN stable ELSE 0]]
    /\ last = Outcome("genesis", "Ok", NoArgs)
    /\ \E target \in Amounts :
          total_in_auction = [NoTotals EXCEPT !.target = target]
    /\ before = NoCall
    /\ frame = Idle

\* The totals of the AuctionManager stay within Balance.
TotalsInBalance(totals) ==
    /\ totals.surplus \in Balance
    /\ totals.debit \in Balance
    /\ totals.target \in Balance

\* The end of a block: the scheduler reads the totals of the AuctionManager,
\* which keeps the auctions of a call that returns and, like the ledger,
\* nothing of a call that aborts.
ScheduleOnFinalize ==
    /\ \E overflow_checks \in BOOLEAN :
           on_finalize(total_in_auction, overflow_checks)
    /\ total_in_auction' =
           IF last'.result = "panic" THEN total_in_auction
           ELSE AuctionManagerAdd(total_in_auction, last'.auctions)
    /\ TotalsInBalance(total_in_auction')
    /\ UNCHANGED <<before, frame>>

NextSchedule ==
    \/ ScheduleOnFinalize
    \/ OnSystemDebit
    \/ OnSystemSurplus

SpecSchedule == InitSchedule /\ [][NextSchedule]_vars

\* ------------------------------------------------------------------------
\* on_finalize and create_collateral_auctions one loop iteration at a time:
\* `frame` holds the local variables of the call that is under way and
\* `last` the auctions it has requested so far
\* ------------------------------------------------------------------------

\* The call returns.
Returns(auctions) ==
    /\ frame' = Idle
    /\ last' = [last EXCEPT !.result = "Ok", !.auctions = auctions]

\* The call aborts: what it wrote is discarded.
Aborts(auctions) ==
    /\ frame' = Idle
    /\ last' = [last EXCEPT !.result = "panic", !.auctions = auctions]
    /\ DebitPool' = frame.saved.debit
    /\ SurplusPool' = frame.saved.surplus
    /\ balances' = frame.saved.bal

\* The call goes on with other local variables.
GoesOn(next_frame, auctions) ==
    /\ frame' = next_frame
    /\ last' = [last EXCEPT !.auctions = auctions]

\* The build that runs the call has overflow checks or has none.
on_finalize_offset(overflow_checks) ==
    LET off == offset_surplus_and_debit(DebitPool, SurplusPool, balances)
    IN  /\ frame.pc = "idle"
        /\ DebitPool' = off.debit
        /\ SurplusPool' = off.surplus
        /\ balances' = off.bal
        /\ last' = [op |-> "on_finalize", result |-> "running",
                    burn |-> off.burn, auctions |-> NoAuctions, args |-> NoArgs]
        /\ frame' = [pc |-> "surplus_phase", created_lots |-> 0, remain |-> 0,
                     required |-> 0, overflow_checks |-> overflow_checks,
                     saved |-> [debit |-> DebitPool, surplus |-> SurplusPool,
                                bal |-> balances]]
        /\ UNCHANGED <<config, TotalCollaterals, IsShutdown, total_in_auction,
                       before>>

\* on_finalize_surplus_phase that starts from the surplus pool as it was
\* before the offset.
on_finalize_surplus_phase_before_offset(total_surplus_in_auction) ==
    LET required == threshold(total_surplus_in_auction, SurplusBufferSize,
                              SurplusAuctionFixedSize, frame.overflow_checks)
    IN  /\ frame.pc = "surplus_phase"
        /\ IF IsShutdown
           THEN Returns(last.auctions) /\ UNCHANGED <<pools, balances>>
           ELSE IF SurplusAuctionFixedSize = 0
           THEN /\ GoesOn([frame EXCEPT !.pc = "debit_phase"], last.auctions)
                /\ UNCHANGED <<pools, balances>>
           ELSE IF required.panic
           THEN Aborts(last.auctions)
           ELSE /\ GoesOn([frame EXCEPT !.pc = "surplus_loop",
                                        !.remain = frame.saved.surplus,
                                        !.required = required.value],
                          last.auctions)
                /\ UNCHANGED <<pools, balances>>
        /\ UNCHANGED <<config, TotalCollaterals, IsShutdown, total_in_auction,
                       before>>

on_finalize_surplus_phase(total_surplus_in_auction) ==
    LET required == threshold(total_surplus_in_auction, SurplusBufferSize,
                              SurplusAuctionFixedSize, frame.overflow_checks)
    IN  /\ frame.pc = "surplus_phase"
        /\ IF IsShutdown
           THEN Returns(last.auctions) /\ UNCHANGED <<pools, balances>>
           ELSE IF SurplusAuctionFixedSize = 0
           THEN /\ GoesOn([frame EXCEPT !.pc = "debit_phase"], last.auctions)
                /\ UNCHANGED <<pools, balances>>
           ELSE IF required.panic
           THEN Aborts(last.auctions)
           ELSE /\ GoesOn([frame EXCEPT !.pc = "surplus_loop",
                                        !.remain = SurplusPool,
                                        !.required = required.value],
                          last.auctions)
                /\ UNCHANGED <<pools, balances>>
        /\ UNCHANGED <<config, TotalCollaterals, IsShutdown, total_in_auction,
                       before>>

\* on_finalize_surplus_iteration that does not take the auction off the
\* remaining surplus.
on_finalize_surplus_iteration_keeping_remain ==
    LET requested == Append(last.auctions,
                            SurplusAuction(SurplusAuctionFixedSize))
    IN  /\ frame.pc = "surplus_loop"
        /\ IF frame.remain >= frame.required
           THEN IF MaxAuctionsCount # 0 /\ frame.created_lots >= MaxAuctionsCount
                THEN GoesOn([frame EXCEPT !.pc = "debit_phase"], last.auctions)
                ELSE GoesOn([frame EXCEPT !.created_lots = @ + 1], requested)
           ELSE GoesOn([frame EXCEPT !.pc = "debit_phase"], last.auctions)
        /\ UNCHANGED <<config, ledger, balances, IsShutdown, total_in_auction,
                       before>>

\* One test of the while condition of the surplus loop and, if it holds,
\* one pass through its body.
on_finalize_surplus_iteration ==
    LET requested == Append(last.auctions,
                            SurplusAuction(SurplusAuctionFixedSize))
    IN  /\ frame.pc = "surplus_loop"
        /\ IF frame.remain >= frame.required
           THEN IF MaxAuctionsCount # 0 /\ frame.created_lots >= MaxAuctionsCount
                THEN /\ GoesOn([frame EXCEPT !.pc = "debit_phase"], last.auctions)
                     /\ UNCHANGED <<pools, balances>>
                ELSE IF checked_sub(frame.remain, SurplusAuctionFixedSize) = None
                THEN Aborts(requested)
                ELSE /\ GoesOn([frame EXCEPT
                                   !.created_lots = @ + 1,
                                   !.remain = @ - SurplusAuctionFixedSize],
                               requested)
                     /\ UNCHANGED <<pools, balances>>
           ELSE /\ GoesOn([frame EXCEPT !.pc = "debit_phase"], last.auctions)
                /\ UNCHANGED <<pools, balances>>
        /\ UNCHANGED <<config, TotalCollaterals, IsShutdown, total_in_auction,
                       before>>

on_finalize_debit_phase(total_debit_in_auction, total_target_in_auction) ==
    LET required == threshold(total_debit_in_auction, total_target_in_auction,
                              DebitAuctionFixedSize, frame.overflow_checks)
    IN  /\ frame.pc = "debit_phase"
        /\ IF DebitAuctionFixedSize = 0 \/ InitialAmountPerDebitAuction = 0
           THEN Returns(last.auctions) /\ UNCHANGED <<pools, balances>>
           ELSE IF required.panic
           THEN Aborts(last.auctions)
           ELSE /\ GoesOn([frame EXCEPT !.pc = "debit_loop",
                                        !.remain = DebitPool,
                                        !.required = required.value],
                          last.auctions)
                /\ UNCHANGED <<pools, balances>>
        /\ UNCHANGED <<config, TotalCollaterals, IsShutdown, total_in_auction,
                       before>>

\* One test of the while condition of the debit loop and, if it holds, one
\* pass through its body.
on_finalize_debit_iteration ==
    LET requested == Append(last.auctions,
                            DebitAuction(InitialAmountPerDebitAuction,
                                         DebitAuctionFixedSize))
    IN  /\ frame.pc = "debit_loop"
        /\ IF frame.remain >= frame.required
           THEN IF MaxAuctionsCount # 0 /\ frame.created_lots >= MaxAuctionsCount
                THEN Returns(last.auctions) /\ UNCHANGED <<pools, balances>>
                ELSE IF checked_sub(frame.remain, DebitAuctionFixedSize) = None
                THEN Aborts(requested)
                ELSE /\ GoesOn([frame EXCEPT
                                   !.created_lots = @ + 1,
                                   !.remain = @ - DebitAuctionFixedSize],
                               requested)
                     /\ UNCHANGED <<pools, balances>>
           ELSE Returns(last.auctions) /\ UNCHANGED <<pools, balances>>
        /\ UNCHANGED <<config, TotalCollaterals, IsShutdown, total_in_auction,
                       before>>

create_collateral_auctions_begin(currency_id, amount, target, collateral_in_auction) ==
    LET count == lots_count(amount, CollateralAuctionMaximumSize[currency_id],
                            MaxAuctionsCount)
        holds == /\ amount # 0
                 /\ TotalCollaterals[currency_id] >=
                        saturating_add(amount, collateral_in_auction)
    IN  /\ frame.pc = "idle"
        /\ last' = [op |-> "create_collateral_auctions",
                    result |-> IF holds THEN "running" ELSE "Ok",
                    burn |-> "none", auctions |-> NoAuctions,
                    args |-> Args(currency_id, amount, target,
                                 collateral_in_auction)]
        /\ frame' = IF holds
                    THEN [pc |-> "lots_loop",
                          unhandled_collateral_amount |-> amount,
                          unhandled_target |-> target,
                          lots_count |-> count,
                          average_amount_per_lot |-> amount \div count,
                          average_target_per_lot |-> target \div count,
                          created_lots |-> 0]
                    ELSE Idle
        /\ UNCHANGED <<config, ledger, IsShutdown, balances, total_in_auction,
                       before>>

\* One test of the while condition of the creation loop and, if it holds,
\* one pass through its body.
create_collateral_auctions_iteration ==
    LET created == saturating_add(frame.created_lots, 1)
        lot_collateral_amount ==
            IF created = frame.lots_count THEN frame.unhandled_collateral_amount
            ELSE frame.average_amount_per_lot
        lot_target ==
            IF created = frame.lots_count THEN frame.unhandled_target
            ELSE frame.average_target_per_lot
    IN  /\ frame.pc = "lots_loop"
        /\ IF frame.unhandled_collateral_amount # 0
           THEN GoesOn([frame EXCEPT
                          !.created_lots = created,
                          !.unhandled_collateral_amount =
                              saturating_sub(@, lot_collateral_amount),
                          !.unhandled_target = saturating_sub(@, lot_target)],
                       Append(last.auctions,
                              CollateralAuction(last.args.currency,
                                                lot_collateral_amount,
                                                lot_target)))
           ELSE Returns(last.auctions)
        /\ UNCHANGED <<config, ledger, IsShutdown, balances, total_in_auction,
                       before>>

\* ------------------------------------------------------------------------
\* SpecSteps: the two calls that loop, one iteration at a time, on pools,
\* sizes and amounts of a few units and on values next to the maximum
\* Balance.  A call that has started runs on until it ends.
\* ------------------------------------------------------------------------

StepPools == {MaxLotAmount - 1, MaxLotAmount + MaxLotSize}
StepTotals == {0, MaxBalance - 2, MaxBalance}

InitSteps ==
    /\ SurplusAuctionFixedSize \in {0, MaxLotSize - 1}
    /\ SurplusBufferSize \in {0, 1}
    /\ InitialAmountPerDebitAuction = Unit
    /\ DebitAuctionFixedSize \in {0, MaxLotSize}
    /\ CollateralAuctionMaximumSize \in [CollateralIds -> {0, MaxLotSize}]
    /\ MaxAuctionsCount \in 0 .. MaxCap
    /\ DebitPool = MaxLotAmount - 1
    /\ SurplusPool \in StepPools
    /\ TotalCollaterals \in [CollateralIds -> {MaxLotAmount, MaxBalance}]
    /\ IsShutdown = FALSE
    /\ \E stable \in {0, SurplusPool} :
          balances = [a \in Accounts |-> [c \in CurrencyIds |->
                         IF a # TreasuryAccount THEN 0
                         ELSE IF c = GetStableCurrencyId THEN stable
                         ELSE TotalCollaterals[c]]]
    /\ last = Outcome("genesis", "Ok", NoArgs)
    /\ AuxIdle

StepOffset ==
    \E overflow_checks \in BOOLEAN : on_finalize_offset(overflow_checks)

StepSurplusPhase ==
    \E total_surplus_in_auction \in StepTotals :
        on_finalize_surplus_phase(total_surplus_in_auction)

StepSurplusIteration == on_finalize_surplus_iteration

StepDebitPhase ==
    \E total_debit_in_auction \in StepTotals :
        on_finalize_debit_phase(total_debit_in_auction, 0)

StepDebitIteration == on_finalize_debit_iteration

StepLotsBegin ==
    \E currency_id \in CollateralIds, amount \in 0 .. MaxLotAmount,
       target \in {MaxLotTarget},
       collateral_in_auction \in {0, 1, MaxBalance} :
        create_collateral_auctions_begin(currency_id, amount, target,
                                         collateral_in_auction)

StepLotsIteration == create_collateral_auctions_iteration

\* The steps of a call that is under way.
StepsOfRunningCall ==
    \/ StepSurplusPhase
    \/ StepSurplusIteration
    \/ StepDebitPhase
    \/ StepDebitIteration
    \/ StepLotsIteration

NextSteps ==
    \/ StepOffset
    \/ StepLotsBegin
    \/ StepsOfRunningCall

SpecSteps == InitSteps /\ [][NextSteps]_vars /\ WF_vars(StepsOfRunningCall)

\* ------------------------------------------------------------------------
\* Properties of the end of a block (SpecCycle)
\* ------------------------------------------------------------------------

\* The burn of the offset succeeds: the treasury account holds the amount.
BurnSucceeds ==
    CurrencyWithdraw(balances, GetStableCurrencyId, TreasuryAccount,
                     Min(DebitPool, SurplusPool)).ok

\* C1: in every on_finalize call that returns, with D and S the pools at its
\* start: if min(D, S) > 0 and the burn succeeds, the pools end as
\* D - min(D, S) and S - min(D, S), one of them 0; if the burn fails the
\* pools are unchanged and the call returns no error.
C1_OffsetNetsPoolsOrLeavesThem ==
    [][ (last'.op = "on_finalize" /\ last'.result # "panic") =>
            LET offset_amount == Min(DebitPool, SurplusPool)
            IN  /\ last'.result = "Ok"
                /\ (offset_amount > 0 /\ BurnSucceeds) =>
                       /\ last'.burn = "ok"
                       /\ DebitPool' = DebitPool - offset_amount
                       /\ SurplusPool' = SurplusPool - offset_amount
                       /\ Min(DebitPool', SurplusPool') = 0
                       /\ balances'[TreasuryAccount][GetStableCurrencyId] =
                              balances[TreasuryAccount][GetStableCurrencyId]
                                  - offset_amount
                /\ (offset_amount > 0 /\ ~BurnSucceeds) =>
                       /\ last'.burn = "failed"
                       /\ UNCHANGED <<pools, balances>>
                /\ offset_amount = 0 => UNCHANGED <<pools, balances>> ]_vars

\* A failed burn has left both pools positive at the end of the call.
C1_Witness ==
    /\ last.op = "on_finalize"
    /\ last.result = "Ok"
    /\ last.burn = "failed"
    /\ DebitPool > 0
    /\ SurplusPool > 0

\* C2: when MaxAuctionsCount is not 0, one on_finalize call requests at most
\* MaxAuctionsCount auctions, surplus and debit auctions together; once the
\* surplus auctions reach the cap no debit auction is requested.
C2_AuctionsWithinSharedCap ==
    (last.op = "on_finalize" /\ MaxAuctionsCount # 0) =>
        /\ Len(last.auctions) <= MaxAuctionsCount
        /\ CountKind(last.auctions, "surplus") = MaxAuctionsCount =>
               CountKind(last.auctions, "debit") = 0

\* The surplus auctions used up the cap while the debit pool, which the
\* failed burn left positive, is large enough for a debit auction.
C2_Witness ==
    /\ last.op = "on_finalize"
    /\ MaxAuctionsCount # 0
    /\ CountKind(last.auctions, "surplus") = MaxAuctionsCount
    /\ InitialAmountPerDebitAuction # 0
    /\ DebitAuctionFixedSize # 0
    /\ DebitPool >= DebitAuctionFixedSize

\* C3: once the shutdown flag is set, an on_finalize call requests no
\* auction, whatever the pools and the configuration, and still offsets the
\* debit pool against the surplus pool.
C3_NoAuctionsAfterShutdown ==
    [][ (IsShutdown /\ last'.op = "on_finalize") =>
            LET offset_amount == Min(DebitPool, SurplusPool)
            IN  /\ last'.auctions = NoAuctions
                /\ last'.result = "Ok"
                /\ (offset_amount > 0 /\ BurnSucceeds) =>
                       /\ DebitPool' = DebitPool - offset_amount
                       /\ SurplusPool' = SurplusPool - offset_amount ]_vars

\* After the shutdown a call has offset the pools and left a surplus that
\* is large enough for a surplus auction.
C3_Witness ==
    /\ IsShutdown
    /\ last.op = "on_finalize"
    /\ last.burn = "ok"
    /\ SurplusAuctionFixedSize # 0
    /\ SurplusPool >= SurplusAuctionFixedSize + SurplusBufferSize

\* ------------------------------------------------------------------------
\* Properties under any sequence of calls (Spec, SpecLedger)
\* ------------------------------------------------------------------------

\* C4: IsShutdown is false at genesis, no call resets it, and
\* on_emergency_shutdown returns no error, sets it (also when it is set
\* already) and changes neither the pools, the collaterals, the balances
\* nor the configuration.
C4_ShutdownIsALatch ==
    [][ /\ last.op = "genesis" => ~IsShutdown
        /\ IsShutdown => IsShutdown'
        /\ last'.op = "on_emergency_shutdown" =>
               /\ IsShutdown'
               /\ last'.result = "Ok"
               /\ UNCHANGED <<config, ledger, balances>> ]_vars

\* A call other than on_emergency_shutdown has run with the flag set.
C4_Witness ==
    /\ IsShutdown
    /\ last.op = "set_debit_and_surplus_handle_params"
    /\ last.result = "Ok"
    /\ DebitPool > 0

LedgerOps ==
    {"on_system_debit", "on_system_surplus", "issue_debit", "deposit_surplus",
     "deposit_collateral", "withdraw_collateral"}

\* C9: on_system_debit, on_system_surplus, unbacked issue_debit,
\* deposit_surplus and deposit_collateral return their overflow error when
\* the addition exceeds the maximum Balance, withdraw_collateral returns
\* CollateralNotEnough when amount exceeds the total, no pool or total ever
\* leaves the range of Balance, and a call of these that returns an error
\* leaves the pools, the totals and all balances as they were.
C9_LedgerErrorsChangeNothing ==
    [][ /\ last'.op = "on_system_debit" =>
               \A amount \in Amounts :
                   (on_system_debit(amount) /\ DebitPool + amount > MaxBalance) =>
                       last'.result = "DebitPoolOverflow"
        /\ last'.op = "on_system_surplus" =>
               \A amount \in Amounts :
                   (on_system_surplus(amount)
                        /\ SurplusPool + amount > MaxBalance) =>
                       last'.result = "SurplusPoolOverflow"
        /\ last'.op = "issue_debit" =>
               \A who \in Accounts, amount \in Amounts :
                   (issue_debit(who, amount, FALSE)
                        /\ DebitPool + amount > MaxBalance) =>
                       last'.result = "DebitPoolOverflow"
        /\ last'.op = "deposit_surplus" =>
               \A from \in Accounts, amount \in Amounts :
                   (deposit_surplus(from, amount)
                        /\ SurplusPool + amount > MaxBalance) =>
                       last'.result = "SurplusPoolOverflow"
        /\ last'.op = "deposit_collateral" =>
               \A from \in Accounts, c \in CollateralIds, amount \in Amounts :
                   (deposit_collateral(from, c, amount)
                        /\ TotalCollaterals[c] + amount > MaxBalance) =>
                       last'.result = "CollateralOverflow"
        /\ last'.op = "withdraw_collateral" =>
               \A to \in Accounts, c \in CollateralIds, amount \in Amounts :
                   (withdraw_collateral(to, c, amount)
                        /\ amount > TotalCollaterals[c]) =>
                       last'.result = "CollateralNotEnough"
        /\ (last'.op \in LedgerOps /\ last'.result # "Ok") =>
               UNCHANGED <<ledger, balances>>
        /\ DebitPool' \in Balance
        /\ SurplusPool' \in Balance
        /\ \A c \in CollateralIds : TotalCollaterals'[c] \in Balance ]_vars

\* increaseDebit on a debit pool that is not 0 has failed with
\* DebitPoolOverflow.
C9_Witness ==
    /\ last.op = "on_system_debit"
    /\ last.result = "DebitPoolOverflow"
    /\ DebitPool > 0

\* C10: a swap_collateral_to_stable call that returns an error leaves the
\* surplus pool, the collateral totals and the balances as they were.
C10_SwapIsAllOrNothing ==
    [][ (last'.op = "swap_collateral_to_stable" /\ last'.result # "Ok") =>
            UNCHANGED <<SurplusPool, TotalCollaterals, balances>> ]_vars

\* ------------------------------------------------------------------------
\* Properties of the lot splitter (SpecLots)
\* ------------------------------------------------------------------------

LotsCall == last.op = "create_collateral_auctions"

\* amount > 0 and TotalCollaterals[asset] >= amount + collateral in auction
LotsPrecondition ==
    /\ LotsCall
    /\ last.args.amount > 0
    /\ TotalCollaterals[last.args.currency] >=
           last.args.amount + last.args.in_auction

LotsMaximumSize == CollateralAuctionMaximumSize[last.args.currency]

CeilDiv(a, b) == (a + b - 1) \div b

\* C5: whenever the precondition of create_collateral_auctions holds, the
\* lot amounts of the collateral auctions requested add up to amount and
\* their lot targets add up to target.
C5_LotsSumToAmountAndTarget ==
    LotsPrecondition =>
        /\ SumAmounts(last.auctions, "collateral") = last.args.amount
        /\ SumTargets(last.auctions, "collateral") = last.args.target
        /\ \A i \in 1 .. Len(last.auctions) :
               /\ last.auctions[i].kind = "collateral"
               /\ last.auctions[i].currency = last.args.currency

\* A split in three or more lots with a remainder in the amount and a
\* target smaller than the number of lots.
C5_Witness ==
    /\ LotsPrecondition
    /\ Len(last.auctions) >= 3
    /\ last.args.amount % Len(last.auctions) # 0
    /\ last.args.target > 0
    /\ last.args.target < Len(last.auctions)

C7_EveryLotWithinMaximumSize ==
    (LotsCall /\ LotsMaximumSize # 0) =>
        \A i \in 1 .. Len(last.auctions) :
            last.auctions[i].amount <= LotsMaximumSize

\* C8: amount = 250, maximum size = 100, MaxAuctionsCount = 0, precondition
\* satisfied: three collateral auctions of 83, 83 and 84 are requested.
C8_ScenarioThreeLots ==
    ( /\ LotsPrecondition
      /\ last.args.amount = Scenario.amount
      /\ LotsMaximumSize = Scenario.size
      /\ MaxAuctionsCount = Scenario.cap ) =>
        /\ Len(last.auctions) = 3
        /\ last.auctions[1].amount = 83
        /\ last.auctions[2].amount = 83
        /\ last.auctions[3].amount = 84

\* ------------------------------------------------------------------------
\* Properties of the collateral in open auctions (SpecCollateral)
\* ------------------------------------------------------------------------

\* C11: after any sequence of deposit_collateral, withdraw_collateral,
\* swap_collateral_to_stable and create_collateral_auctions, the total of
\* every collateral is at least the amount of it in open collateral auctions.
C11_CollateralCoversAuctions ==
    \A c \in CollateralIds :
        TotalCollaterals[c] >= total_in_auction.collateral[c]

\* ------------------------------------------------------------------------
\* Properties of a deposit followed by its withdrawal (SpecRoundTrip)
\* ------------------------------------------------------------------------

\* The last call withdrew what the call before it had deposited.
RoundTripDone ==
    /\ last.op = "withdraw_collateral"
    /\ before.who # ""

\* C12: when deposit_collateral(A, asset, x) succeeds, the
\* withdraw_collateral(A, asset, x) that follows it succeeds and leaves the
\* collateral totals and all balances as they were before the deposit.
C12_DepositThenWithdrawRestores ==
    RoundTripDone =>
        /\ last.result = "Ok"
        /\ TotalCollaterals = before.total
        /\ balances = before.bal

\* An account other than the treasury has deposited and withdrawn a
\* positive amount while the treasury held collateral of other deposits.
C12_Witness ==
    /\ RoundTripDone
    /\ before.who # TreasuryAccount
    /\ before.amount > 0
    /\ TotalCollaterals[before.currency] > 0

\* ------------------------------------------------------------------------
\* Properties of the scheduler over the blocks (SpecSchedule)
\* ------------------------------------------------------------------------

\* The number of surplus auctions of a cycle that starts its surplus phase
\* with the pool S, the buffer B, the fixed size F and T in auction.
SurplusAuctionsDue(S, T, B, F, cap) ==
    LET due == IF S < T + B + F THEN 0 ELSE (S - T - B) \div F
    IN  IF cap # 0 THEN Min(due, cap) ELSE due

\* C13: in every on_finalize call that returns, without shutdown and with
\* SurplusAuctionFixedSize F > 0, the number of surplus auctions requested is
\* 0 if S < T + B + F and floor((S - T - B) / F) otherwise, limited to
\* MaxAuctionsCount when that is not 0, S being the surplus pool after the
\* offset, B the buffer and T the total surplus in auction at the start; and
\* every one of them has the size F (S = 1000, B = 100, F = 200, T = 0,
\* cap = 2: two surplus auctions).
C13_SurplusAuctionsCount ==
    [][ ( /\ last'.op = "on_finalize"
          /\ last'.result # "panic"
          /\ ~IsShutdown
          /\ SurplusAuctionFixedSize # 0 ) =>
            /\ CountKind(last'.auctions, "surplus") =
                   SurplusAuctionsDue(SurplusPool', total_in_auction.surplus,
                                      SurplusBufferSize, SurplusAuctionFixedSize,
                                      MaxAuctionsCount)
            /\ \A i \in 1 .. Len(last'.auctions) :
                   last'.auctions[i].kind = "surplus" =>
                       last'.auctions[i].amount = SurplusAuctionFixedSize ]_vars

\* C15: in every on_finalize call the sums total_surplus_in_auction +
\* surplus_buffer_size + surplus_auction_fixed_size and total_debit_in_auction
\* + total_target_in_auction + debit_auction_fixed_size that the scheduler
\* computes stay within the maximum Balance, and the call does not abort:
\* neither an addition nor the checked subtraction of the fixed size from
\* the remaining pool fails.
C15_SchedulerArithmeticIsSafe ==
    [][ last'.op = "on_finalize" =>
            /\ last'.result # "panic"
            /\ SurplusAuctionFixedSize # 0 =>
                   total_in_auction.surplus + SurplusBufferSize
                       + SurplusAuctionFixedSize <= MaxBalance
            /\ (DebitAuctionFixedSize # 0 /\ InitialAmountPerDebitAuction # 0) =>
                   total_in_auction.debit + total_in_auction.target
                       + DebitAuctionFixedSize <= MaxBalance ]_vars

\* C18: with the AuctionManager adding every new auction to its totals,
\* after an on_finalize call that requested a surplus auction the total
\* surplus in auction plus SurplusBufferSize is at most SurplusPool, and
\* after one that requested a debit auction the total debit in auction plus
\* the total target in auction is at most DebitPool; the totals after the
\* last auction of a call are the largest of the call.
C18_BuffersPreventOverCommitting ==
    (last.op = "on_finalize" /\ last.result = "Ok") =>
        /\ CountKind(last.auctions, "surplus") > 0 =>
               total_in_auction.surplus + SurplusBufferSize <= SurplusPool
        /\ CountKind(last.auctions, "debit") > 0 =>
               total_in_auction.debit + total_in_auction.target <= DebitPool

\* C19: an on_finalize call whose offset burn did not fail (nothing to
\* offset, or the burn succeeded) requests surplus auctions or debit
\* auctions, never both.
C19_OneKindOfAuctionPerCycle ==
    (last.op = "on_finalize" /\ last.burn # "failed") =>
        ~ /\ CountKind(last.auctions, "surplus") > 0
          /\ CountKind(last.auctions, "debit") > 0

\* C20: when the treasury account starts with at least SurplusPool of
\* stable currency, the DEX credits what it pays to the treasury account and
\* no caller names the treasury account as who or from, the treasury's
\* stable balance stays at least SurplusPool after every on_system_surplus,
\* deposit_surplus, issue_debit, burn_debit, swap_collateral_to_stable,
\* on_system_debit and on_finalize, and the burn of the offset never fails.
C20_TreasuryHoldsTheSurplusPool ==
    /\ balances[TreasuryAccount][GetStableCurrencyId] >= SurplusPool
    /\ last.op = "on_finalize" => last.burn # "failed"

\* An offset has burnt treasury funds and left surplus in the pool, all of
\* it held by the treasury account and no more.
C20_Witness ==
    /\ last.op = "on_finalize"
    /\ last.result = "Ok"
    /\ last.burn = "ok"
    /\ SurplusPool > 0
    /\ balances[TreasuryAccount][GetStableCurrencyId] = SurplusPool

\* ------------------------------------------------------------------------
\* Properties of the loops (SpecSteps)
\* ------------------------------------------------------------------------

\* Every pass through the body of a loop that leaves the call in the loop
\* has made the remaining amount of the loop smaller.
LoopsDecrease ==
    [][ /\ (frame.pc = "surplus_loop" /\ frame'.pc = "surplus_loop") =>
               frame'.remain < frame.remain
        /\ (frame.pc = "debit_loop" /\ frame'.pc = "debit_loop") =>
               frame'.remain < frame.remain
        /\ (frame.pc = "lots_loop" /\ frame'.pc = "lots_loop") =>
               frame'.unhandled_collateral_amount <
                   frame.unhandled_collateral_amount ]_vars

\* C14: every on_finalize call and every create_collateral_auctions call
\* comes to its end, whatever the pools, the configuration (MaxAuctionsCount
\* = 0 included) and the totals in auction; the surplus loop, the debit loop
\* and the lot creation loop make their remaining amount strictly smaller
\* with every iteration.
C14_CallsTerminate ==
    /\ LoopsDecrease
    /\ (frame.pc # "idle") ~> (frame.pc = "idle")

\* Without a cap, the surplus loop is past its third iteration.
C14_Witness ==
    /\ MaxAuctionsCount = 0
    /\ frame.pc = "surplus_loop"
    /\ frame.created_lots >= 3
    /\ frame.remain < SurplusPool

\* What the offset of the running call has taken off both pools.
OffsetOfRunningCall ==
    IF last.burn = "ok" THEN Min(frame.saved.debit, frame.saved.surplus) ELSE 0

\* No surplus auction comes after a debit auction.
SurplusBeforeDebit(auctions) ==
    \A i \in 1 .. Len(auctions), j \in 1 .. Len(auctions) :
        (auctions[i].kind = "debit" /\ auctions[j].kind = "surplus") => j < i

\* C16: within one on_finalize call the offset comes first, before any
\* auction is requested, and is the only step that writes the pools; the
\* remaining surplus and the remaining debit of the scheduler start from the
\* pools as the offset left them; and every surplus auction of the call is
\* requested before any of its debit auctions.
C16_OffsetThenSurplusThenDebit ==
    [][ /\ (frame.pc = "idle" /\ last'.op = "on_finalize") =>
               /\ frame'.pc = "surplus_phase"
               /\ last'.auctions = NoAuctions
        /\ (frame.pc # "idle" /\ frame'.pc # "idle") =>
               UNCHANGED <<pools, balances>>
        /\ (frame.pc = "surplus_phase" /\ frame'.pc = "surplus_loop") =>
               /\ frame'.remain = frame.saved.surplus - OffsetOfRunningCall
               /\ frame'.remain = SurplusPool
        /\ (frame.pc = "debit_phase" /\ frame'.pc = "debit_loop") =>
               /\ frame'.remain = frame.saved.debit - OffsetOfRunningCall
               /\ frame'.remain = DebitPool
        /\ last'.op = "on_finalize" => SurplusBeforeDebit(last'.auctions) ]_vars

\* After an offset that took something off both pools, the surplus loop has
\* requested an auction from what was left.
C16_Witness ==
    /\ last.op = "on_finalize"
    /\ last.burn = "ok"
    /\ frame.pc = "surplus_loop"
    /\ OffsetOfRunningCall > 0
    /\ frame.created_lots > 0
    /\ frame.remain + frame.created_lots * SurplusAuctionFixedSize = SurplusPool

\* C17: requesting auctions writes nothing to the ledger: the steps of
\* on_finalize after the offset and the whole of create_collateral_auctions
\* leave the pools, the collateral totals, the balances, the shutdown flag
\* and the configuration as they are, however many auctions they request;
\* and create_collateral_auctions requests no auction when amount = 0 or
\* TotalCollaterals[asset] < amount + collateral in auction.
C17_AuctionCreationWritesNothing ==
    [][ /\ (frame.pc # "idle" /\ last'.result # "panic") =>
               UNCHANGED <<config, ledger, IsShutdown, balances>>
        /\ last'.op = "create_collateral_auctions" =>
               /\ UNCHANGED <<config, ledger, IsShutdown, balances>>
               /\ ( \/ last'.args.amount = 0
                    \/ TotalCollaterals[last'.args.currency] <
                           last'.args.amount + last'.args.in_auction ) =>
                       last'.auctions = NoAuctions ]_vars

====
